---- MODULE Spec2Model ----
(***************************************************************************)
(* Model of python-generators-0x00: the lazy producers stream_users,       *)
(* stream_users_in_batches, lazy_pagination and stream_user_ages, and the  *)
(* consumers batch_processing and compute_average_age, over a store that   *)
(* hands out connections and cursors and may fail at any call.             *)
(***************************************************************************)
EXTENDS Integers, Sequences, FiniteSets, TLC

(***************************************************************************)
(* Bounds of the model.                                                    *)
(***************************************************************************)
\* longest table (number of rows of user_data) explored
MaxRows == 3
\* largest batch_size / page_size explored (the smallest is -1)
MaxSize == 3

(***************************************************************************)
(* Python values of the age column.  Every value is a record of the same   *)
(* shape: t is the Python type, n the number (an int for "int"; tenths for *)
(* "float" and "Decimal", so that 30.0 is 300 and 30.5 is 305), s the      *)
(* characters of a str.                                                    *)
(***************************************************************************)
IntV(k) == [t |-> "int", n |-> k, s |-> <<>>]
FloatV(tenths) == [t |-> "float", n |-> tenths, s |-> <<>>]
DecimalV(tenths) == [t |-> "Decimal", n |-> tenths, s |-> <<>>]
StrV(chars) == [t |-> "str", n |-> 0, s |-> chars]
NoneV == [t |-> "None", n |-> 0, s |-> <<>>]

\* the outcome of a conversion that raised
Raised(exc) == [ok |-> FALSE, exc |-> exc, val |-> NoneV]
Returned(v) == [ok |-> TRUE, exc |-> "none", val |-> v]

Digits == {"0", "1", "2", "3", "4", "5", "6", "7", "8", "9"}
DigitVal(c) ==
  CASE c = "0" -> 0 [] c = "1" -> 1 [] c = "2" -> 2 [] c = "3" -> 3
    [] c = "4" -> 4 [] c = "5" -> 5 [] c = "6" -> 6 [] c = "7" -> 7
    [] c = "8" -> 8 [] c = "9" -> 9

\* str.strip(): drop leading and trailing blanks
RECURSIVE LStrip(_)
LStrip(s) == IF s # <<>> /\ Head(s) = " " THEN LStrip(Tail(s)) ELSE s
RECURSIVE RStrip(_)
RStrip(s) ==
  IF s # <<>> /\ s[Len(s)] = " " THEN RStrip(SubSeq(s, 1, Len(s) - 1)) ELSE s
Strip(s) == RStrip(LStrip(s))

AllDigits(s) == \A i \in 1..Len(s) : s[i] \in Digits
\* the number a run of decimal digits denotes
RECURSIVE DigitsVal(_)
DigitsVal(s) ==
  IF s = <<>> THEN 0
  ELSE 10 * DigitsVal(SubSeq(s, 1, Len(s) - 1)) + DigitVal(s[Len(s)])

\* the sign of a numeric literal and the rest of it
SignOf(s) == IF s # <<>> /\ Head(s) = "-" THEN -1 ELSE 1
Unsigned(s) == IF s # <<>> /\ Head(s) \in {"-", "+"} THEN Tail(s) ELSE s
\* the position of the first "." of s, or 0
DotAt(s) ==
  IF \E i \in 1..Len(s) : s[i] = "."
  THEN CHOOSE i \in 1..Len(s) : s[i] = "." /\ \A j \in 1..(i - 1) : s[j] # "."
  ELSE 0

\* rounding toward zero of a number given in tenths
Trunc(tenths) == IF tenths >= 0 THEN tenths \div 10 ELSE -((-tenths) \div 10)

\* int(str): blanks stripped, an optional sign, then one or more digits
IntOfStr(chars) ==
  LET body == Unsigned(Strip(chars)) IN
    IF body # <<>> /\ AllDigits(body)
    THEN Returned(IntV(SignOf(Strip(chars)) * DigitsVal(body)))
    ELSE Raised("ValueError")

\* float(str): blanks stripped, an optional sign, digits with an optional
\* fraction; the value is kept in tenths (the first digit of the fraction)
FloatOfStr(chars) ==
  LET body == Unsigned(Strip(chars))
      dot == DotAt(body)
      whole == IF dot = 0 THEN body ELSE SubSeq(body, 1, dot - 1)
      frac == IF dot = 0 THEN <<>> ELSE SubSeq(body, dot + 1, Len(body))
      tenth == IF frac = <<>> THEN 0 ELSE DigitVal(frac[1])
  IN IF (whole # <<>> \/ frac # <<>>) /\ AllDigits(whole) /\ AllDigits(frac)
     THEN Returned(FloatV(SignOf(Strip(chars))
                            * (10 * DigitsVal(whole) + tenth)))
     ELSE Raised("ValueError")

\* Python's int(x)
PyInt(x) ==
  CASE x.t = "int" -> Returned(x)
    [] x.t \in {"float", "Decimal"} -> Returned(IntV(Trunc(x.n)))
    [] x.t = "str" -> IntOfStr(x.s)
    [] OTHER -> Raised("TypeError")

\* Python's float(x)
PyFloat(x) ==
  CASE x.t = "int" -> Returned(FloatV(10 * x.n))
    [] x.t \in {"float", "Decimal"} -> Returned(FloatV(x.n))
    [] x.t = "str" -> FloatOfStr(x.s)
    [] OTHER -> Raised("TypeError")

\* isinstance(x, int)
IsInstanceInt(x) == x.t = "int"

(***************************************************************************)
(* The store: the rows of user_data, and the connections and cursors it    *)
(* has handed out and seen closed.                                         *)
(***************************************************************************)
\* the values the age column of a fetched row can hold
RawAges ==
  { IntV(20), IntV(25), IntV(26), DecimalV(300), FloatV(300),
    StrV(<<"3", "0">>), StrV(<<"3", "0", ".", "5">>),
    StrV(<<"a", "b", "c">>), NoneV }

\* the i-th row of the table as cursor(dictionary=True) returns it; the
\* key columns are determined by the row's position
Row(i, age) == [user_id |-> i, name |-> i, email |-> i, age |-> age]

Tables ==
  UNION { { [i \in 1..k |-> Row(i, ages[i])] : ages \in [1..k -> RawAges] }
          : k \in 0..MaxRows }

\* what compute_average_age prints: nothing yet, "No user data found.", or
\* "Average age of users: " and a number with two decimals
NoReport == [text |-> "", whole |-> 0, cents |-> 0]

NoResources ==
  [conn_acquired |-> 0, conn_released |-> 0,
   cursor_acquired |-> 0, cursor_released |-> 0]

\* the steps of a query at which the store can fail
Failures == {"connect", "cursor", "execute", "fetch", "none"}

VARIABLES
  table,        \* the rows of user_data
  resources,    \* how many connections and cursors were acquired and released
  mode,         \* which program drives the producers
  su_pc,        \* stream_users: state of the generator
  conn,         \* stream_users: its local conn ("None", "open", "closed")
  cursor,       \* stream_users: its local cursor
  su_pos,       \* stream_users: rows the cursor has handed out
  su_out,       \* stream_users: the records yielded, in order
  su_err,       \* stream_users: the exception that ended it
  batch_size,   \* stream_users_in_batches: its argument
  b_pc,         \* stream_users_in_batches: state of the generator
  batch,        \* stream_users_in_batches: its local batch
  b_out,        \* stream_users_in_batches: the batches yielded, in order
  b_err,        \* stream_users_in_batches: the exception that ended it
  consumer,     \* the consuming program: where it is
  printed,      \* batch_processing: the records printed, in order
  consumer_err, \* the exception that ended the consuming program
  page_size,    \* lazy_pagination: its argument
  lp_pc,        \* lazy_pagination: state of the generator
  offset,       \* lazy_pagination: its local offset
  lp_out,       \* lazy_pagination: the pages yielded, in order
  lp_err,       \* lazy_pagination: the exception that ended it
  pu_pc,        \* paginate_users: the line it is about to run
  connection,   \* paginate_users: its local connection
  pu_cursor,    \* paginate_users: its local cursor
  rows,         \* paginate_users: its local rows
  queries,      \* paginate_users: the (limit, offset) of every call so far
  sa_pc,        \* stream_user_ages: state of the generator
  sa_connection, \* stream_user_ages: its local connection
  sa_cursor,    \* stream_user_ages: its local cursor
  sa_pos,       \* stream_user_ages: rows the cursor has handed out
  sa_out,       \* stream_user_ages: the ages yielded, in order
  sa_err,       \* stream_user_ages: the exception that ended it
  total_age,    \* compute_average_age: its local total_age
  count,        \* compute_average_age: its local count
  report        \* compute_average_age: the line it printed

su_vars == <<su_pc, conn, cursor, su_pos, su_out, su_err>>
b_vars == <<batch_size, b_pc, batch, b_out, b_err>>
c_vars == <<consumer, printed, consumer_err>>
lp_vars == <<page_size, lp_pc, offset, lp_out, lp_err>>
pu_vars == <<pu_pc, connection, pu_cursor, rows, queries>>
sa_vars == <<sa_pc, sa_connection, sa_cursor, sa_pos, sa_out, sa_err>>
ca_vars == <<total_age, count, report>>
vars ==
  <<table, resources, mode, su_vars, b_vars, c_vars, lp_vars, pu_vars,
    sa_vars, ca_vars>>

\* the producers that take no part in a program stay as they were
UsersOnly == UNCHANGED <<lp_vars, pu_vars, sa_vars, ca_vars>>
PagesOnly == UNCHANGED <<su_vars, b_vars, printed, sa_vars, ca_vars>>
AgesOnly == UNCHANGED <<su_vars, b_vars, printed, lp_vars, pu_vars>>

(***************************************************************************)
(* stream_users (0-stream_users.py).  One resumption of the generator runs *)
(* from the call of next() to the next yield or to the end of the finally  *)
(* block.                                                                  *)
(***************************************************************************)
\* a variant without lines 52-56: the row is yielded as fetched
NormalizeAgeSkipped(row) == row

\* a variant that falls back to 0 when int() raises, as seed.insert_data does
NormalizeAgeZero(row) ==
  IF PyInt(row.age).ok
  THEN [row EXCEPT !.age = PyInt(row.age).val]
  ELSE [row EXCEPT !.age = IntV(0)]

\* lines 52-56: age becomes int(age) unless int() raises
NormalizeAge(row) ==
  IF PyInt(row.age).ok THEN [row EXCEPT !.age = PyInt(row.age).val] ELSE row

\* a variant of the finally block that closes the cursor only
FinallyCursorOnly(res, cn, cu) ==
  [res EXCEPT !.cursor_released = IF cu = "open" THEN @ + 1 ELSE @]

\* lines 61-72: close the cursor and the connection that were acquired
Finally(res, cn, cu) ==
  [res EXCEPT
     !.cursor_released = IF cu = "open" THEN @ + 1 ELSE @,
     !.conn_released = IF cn = "open" THEN @ + 1 ELSE @]
Closed(x) == IF x = "open" THEN "closed" ELSE x

\* lines 45-48 up to the step that fails: what was acquired
Acquire(res, fail) ==
  [res EXCEPT
     !.conn_acquired = IF fail # "connect" THEN @ + 1 ELSE @,
     !.cursor_acquired = IF fail \notin {"connect", "cursor"} THEN @ + 1 ELSE @]

\* the generator leaves through the finally block in state pc
StreamUsersExit(res, cn, cu, pc, err) ==
  /\ resources' = Finally(res, cn, cu)
  /\ conn' = Closed(cn)
  /\ cursor' = Closed(cu)
  /\ su_pc' = pc
  /\ su_err' = err
  /\ UNCHANGED <<su_pos, su_out>>

\* the loop of lines 50-57 asks the cursor for its next row
StreamUsersFetch(res, cn, cu, fail) ==
  IF fail = "fetch"
  THEN StreamUsersExit(res, cn, cu, "failed", "Error")
  ELSE IF su_pos < Len(table)
  THEN /\ su_pos' = su_pos + 1
       /\ su_out' = Append(su_out, NormalizeAge(table[su_pos + 1]))
       /\ su_pc' = "suspended"
       /\ resources' = res
       /\ conn' = cn
       /\ cursor' = cu
       /\ UNCHANGED su_err
  ELSE StreamUsersExit(res, cn, cu, "exhausted", "none")

\* next() on the generator; fail is the step at which the store fails
StreamUsersNext(fail) ==
  \/ /\ su_pc = "created"
     /\ LET res == Acquire(resources, fail)
            cn == IF fail # "connect" THEN "open" ELSE "None"
            cu == IF fail \notin {"connect", "cursor"} THEN "open" ELSE "None"
        IN IF fail \in {"connect", "cursor", "execute"}
           THEN StreamUsersExit(res, cn, cu, "failed", "Error")
           ELSE StreamUsersFetch(res, cn, cu, fail)
  \/ /\ su_pc = "suspended"
     /\ fail \in {"fetch", "none"}
     /\ StreamUsersFetch(resources, conn, cursor, fail)

\* close() on the generator: GeneratorExit is raised at the yield of line 57
\* and leaves through the finally block; a generator that never started
\* runs no code
StreamUsersClose ==
  \/ /\ su_pc = "created"
     /\ su_pc' = "cancelled"
     /\ UNCHANGED <<resources, conn, cursor, su_pos, su_out, su_err>>
  \/ /\ su_pc = "suspended"
     /\ StreamUsersExit(resources, conn, cursor, "cancelled", "none")

(***************************************************************************)
(* stream_users_in_batches (1-batch_processing.py, lines 22-37).           *)
(***************************************************************************)
Last(q) == q[Len(q)]

\* a variant whose check of line 27 lets batch_size = 0 through
StreamUsersInBatchesStartZero ==
  /\ b_pc = "created"
  /\ IF batch_size < 0
     THEN /\ b_pc' = "failed"
          /\ b_err' = "ValueError"
          /\ UNCHANGED <<batch, su_pc>>
     ELSE /\ b_pc' = "running"
          /\ batch' = <<>>
          /\ su_pc' = "created"
          /\ UNCHANGED b_err
  /\ UNCHANGED <<batch_size, b_out, resources, conn, cursor, su_pos, su_out,
                 su_err, table>>

\* the first next(): lines 27-30, up to the call of stream_users()
StreamUsersInBatchesStart ==
  /\ b_pc = "created"
  /\ IF batch_size <= 0
     THEN /\ b_pc' = "failed"
          /\ b_err' = "ValueError"
          /\ UNCHANGED <<batch, su_pc>>
     ELSE /\ b_pc' = "running"
          /\ batch' = <<>>
          /\ su_pc' = "created"
          /\ UNCHANGED b_err
  /\ UNCHANGED <<batch_size, b_out, resources, conn, cursor, su_pos, su_out,
                 su_err, table>>

\* a variant that yields a full batch only once one more row was pulled
BatchAppendLookahead(user) ==
  /\ batch' = Append(batch, user)
  /\ IF Len(batch') > batch_size
     THEN /\ b_out' = Append(b_out, SubSeq(batch', 1, batch_size))
          /\ b_pc' = "yielded"
     ELSE UNCHANGED <<b_out, b_pc>>
  /\ UNCHANGED b_err

\* lines 32-34 after a row was pulled: append, yield when the batch is full
BatchAppend(user) ==
  /\ batch' = Append(batch, user)
  /\ IF Len(batch') >= batch_size
     THEN /\ b_out' = Append(b_out, batch')
          /\ b_pc' = "yielded"
     ELSE UNCHANGED <<b_out, b_pc>>
  /\ UNCHANGED b_err

\* a variant of lines 36-37 without the test: what is left is yielded even
\* when it is empty
BatchRestAlways ==
  /\ b_out' = Append(b_out, batch)
  /\ b_pc' = "yielded_last"
  /\ UNCHANGED <<batch, b_err>>

\* a variant without lines 36-37: what is left is never yielded
BatchRestDropped ==
  /\ b_pc' = "exhausted"
  /\ UNCHANGED <<batch, b_out, b_err>>

\* lines 36-37: the rows are exhausted; yield what is left, if anything
BatchRest ==
  /\ IF batch # <<>>
     THEN /\ b_out' = Append(b_out, batch)
          /\ b_pc' = "yielded_last"
     ELSE /\ b_pc' = "exhausted"
          /\ UNCHANGED b_out
  /\ UNCHANGED <<batch, b_err>>

\* a variant that hands over the buffer before the exception leaves
BatchRaiseFlushed(err) ==
  /\ b_pc' = "failed"
  /\ b_err' = err
  /\ b_out' = IF batch # <<>> THEN Append(b_out, batch) ELSE b_out
  /\ UNCHANGED batch

\* line 31: an exception of stream_users leaves the loop and the function,
\* which handles none; the buffer is dropped with the frame
BatchRaise(err) ==
  /\ b_pc' = "failed"
  /\ b_err' = err
  /\ UNCHANGED <<batch, b_out>>

\* line 31: one turn of the loop pulls one row from stream_users
StreamUsersInBatchesPull(fail) ==
  /\ b_pc = "running"
  /\ StreamUsersNext(fail)
  /\ CASE su_pc' = "suspended" -> BatchAppend(Last(su_out'))
       [] su_pc' = "exhausted" -> BatchRest
       [] OTHER -> BatchRaise(su_err')
  /\ UNCHANGED <<batch_size, table>>

\* next() on the generator suspended at a yield: line 35, or the end
StreamUsersInBatchesResume ==
  /\ b_pc \in {"yielded", "yielded_last"}
  /\ IF b_pc = "yielded"
     THEN /\ batch' = <<>>
          /\ b_pc' = "running"
     ELSE /\ b_pc' = "exhausted"
          /\ UNCHANGED batch
  /\ UNCHANGED <<batch_size, b_out, b_err, su_vars, resources, table>>

\* the generator is finalized while suspended or before it started:
\* GeneratorExit passes through lines 30-37, which have no handler
StreamUsersInBatchesClose ==
  /\ b_pc \in {"created", "yielded", "yielded_last"}
  /\ b_pc' = "cancelled"
  /\ UNCHANGED <<batch_size, batch, b_out, b_err, su_vars, resources, table>>

(***************************************************************************)
(* batch_processing (1-batch_processing.py, lines 40-56).                  *)
(***************************************************************************)
\* a variant of the condition that compares with >= 25
OverAgeInclusive(u) ==
  IF IsInstanceInt(u.age)
  THEN [ok |-> TRUE, exc |-> "none", keep |-> u.age.n >= 25]
  ELSE IF ~PyFloat(u.age).ok
  THEN [ok |-> FALSE, exc |-> PyFloat(u.age).exc, keep |-> FALSE]
  ELSE [ok |-> TRUE, exc |-> "none",
        keep |-> PyInt(PyFloat(u.age).val).val.n >= 25]

\* lines 52-53, the condition of the comprehension for one user
OverAge(u) ==
  IF IsInstanceInt(u.age)
  THEN [ok |-> TRUE, exc |-> "none", keep |-> u.age.n > 25]
  ELSE IF ~PyFloat(u.age).ok
  THEN [ok |-> FALSE, exc |-> PyFloat(u.age).exc, keep |-> FALSE]
  ELSE [ok |-> TRUE, exc |-> "none",
        keep |-> PyInt(PyFloat(u.age).val).val.n > 25]

\* the first user of the batch whose condition raises, or 0
FirstRaising(b) ==
  IF \E i \in 1..Len(b) : ~OverAge(b[i]).ok
  THEN CHOOSE i \in 1..Len(b) :
         ~OverAge(b[i]).ok /\ \A j \in 1..(i - 1) : OverAge(b[j]).ok
  ELSE 0

KeepUser(u) == OverAge(u).keep
\* lines 52-53: the filtered list
Filtered(b) == SelectSeq(b, KeepUser)

(***************************************************************************)
(* The programs that drive stream_users and stream_users_in_batches: a     *)
(* loop over stream_users ("users"), a loop over stream_users_in_batches   *)
(* ("batches"), and batch_processing ("process").  A loop may stop early;  *)
(* the generator it leaves behind is finalized when, and if, the runtime   *)
(* collects it.                                                            *)
(***************************************************************************)
Modes == {"users", "batches", "process"}

\* how a step of the producer ends the for loop that consumes it
ConsumerAfter(pc, err) ==
  /\ consumer' = CASE pc = "exhausted" -> "done"
                   [] pc = "failed" -> "failed"
                   [] OTHER -> consumer
  /\ consumer_err' = IF pc = "failed" THEN err ELSE consumer_err

\* for user in stream_users(): the loop asks for the next record
UsersNext ==
  /\ UsersOnly
  /\ mode = "users"
  /\ consumer = "iterating"
  /\ \E fail \in Failures : StreamUsersNext(fail)
  /\ ConsumerAfter(su_pc', su_err')
  /\ UNCHANGED <<table, mode, b_vars, printed>>

\* for batch in stream_users_in_batches(batch_size): the first request
BatchesStart ==
  /\ UsersOnly
  /\ mode \in {"batches", "process"}
  /\ consumer = "iterating"
  /\ StreamUsersInBatchesStart
  /\ ConsumerAfter(b_pc', b_err')
  /\ UNCHANGED <<mode, printed>>

\* the batcher, running on behalf of its consumer, pulls one row
BatchesPull ==
  /\ UsersOnly
  /\ mode \in {"batches", "process"}
  /\ consumer = "iterating"
  /\ \E fail \in Failures : StreamUsersInBatchesPull(fail)
  /\ ConsumerAfter(b_pc', b_err')
  /\ UNCHANGED <<mode, printed>>

\* the loop over the batches asks for the next batch
BatchesNext ==
  /\ UsersOnly
  /\ mode = "batches"
  /\ consumer = "iterating"
  /\ StreamUsersInBatchesResume
  /\ ConsumerAfter(b_pc', b_err')
  /\ UNCHANGED <<mode, printed>>

\* batch_processing, lines 50-56: the body of the loop for the batch just
\* yielded, then the request for the next batch
BatchProcessingBody ==
  /\ UsersOnly
  /\ mode = "process"
  /\ consumer = "iterating"
  /\ b_pc \in {"yielded", "yielded_last"}
  /\ LET b == Last(b_out)
         bad == FirstRaising(b)
     IN IF bad # 0
        THEN /\ consumer' = "failed"
             /\ consumer_err' = OverAge(b[bad]).exc
             /\ UNCHANGED <<printed, b_vars, su_vars, resources, table>>
        ELSE /\ printed' = printed \o Filtered(b)
             /\ StreamUsersInBatchesResume
             /\ ConsumerAfter(b_pc', b_err')
  /\ UNCHANGED mode

\* the loop is left early (break), with the generator suspended
ConsumerStop ==
  /\ UsersOnly
  /\ consumer = "iterating"
  /\ \/ mode = "users" /\ su_pc \in {"created", "suspended"}
     \/ mode = "batches" /\ b_pc \in {"created", "yielded", "yielded_last"}
  /\ consumer' = "stopped"
  /\ UNCHANGED <<table, resources, mode, su_vars, b_vars, printed,
                 consumer_err>>

\* the runtime finalizes the batcher its consumer no longer holds
FinalizeBatches ==
  /\ UsersOnly
  /\ mode \in {"batches", "process"}
  /\ consumer \in {"stopped", "failed"}
  /\ StreamUsersInBatchesClose
  /\ UNCHANGED <<mode, c_vars>>

\* the runtime finalizes the stream_users generator nothing holds any more
FinalizeUsers ==
  /\ UsersOnly
  /\ \/ mode = "users" /\ consumer = "stopped"
     \/ mode \in {"batches", "process"} /\ b_pc = "cancelled"
  /\ StreamUsersClose
  /\ UNCHANGED <<table, mode, b_vars, c_vars>>

\* no generator of the other programs exists
PagesIdle ==
  /\ page_size = 1
  /\ lp_pc = "none"
  /\ offset = 0
  /\ lp_out = <<>>
  /\ lp_err = "none"
  /\ pu_pc = "idle"
  /\ connection = "None"
  /\ pu_cursor = "None"
  /\ rows = <<>>
  /\ queries = <<>>

AgesIdle ==
  /\ sa_pc = "none"
  /\ sa_connection = "None"
  /\ sa_cursor = "None"
  /\ sa_pos = 0
  /\ sa_out = <<>>
  /\ sa_err = "none"
  /\ total_age = 0
  /\ count = 0
  /\ report = NoReport

UsersIdle ==
  /\ su_pc = "none"
  /\ conn = "None"
  /\ cursor = "None"
  /\ su_pos = 0
  /\ su_out = <<>>
  /\ su_err = "none"
  /\ batch_size = 1
  /\ b_pc = "none"
  /\ batch = <<>>
  /\ b_out = <<>>
  /\ b_err = "none"
  /\ printed = <<>>

Init ==
  /\ table \in Tables
  /\ resources = NoResources
  /\ mode \in Modes
  /\ su_pc = IF mode = "users" THEN "created" ELSE "none"
  /\ conn = "None"
  /\ cursor = "None"
  /\ su_pos = 0
  /\ su_out = <<>>
  /\ su_err = "none"
  /\ batch_size \in IF mode = "users" THEN {1} ELSE -1..MaxSize
  /\ b_pc = IF mode = "users" THEN "none" ELSE "created"
  /\ batch = <<>>
  /\ b_out = <<>>
  /\ b_err = "none"
  /\ consumer = "iterating"
  /\ printed = <<>>
  /\ consumer_err = "none"
  /\ PagesIdle
  /\ AgesIdle

Next ==
  \/ UsersNext
  \/ BatchesStart
  \/ BatchesPull
  \/ BatchesNext
  \/ BatchProcessingBody
  \/ ConsumerStop
  \/ FinalizeBatches
  \/ FinalizeUsers

Spec == Init /\ [][Next]_vars

(***************************************************************************)
(* seed.connect_to_prodev (seed.py, lines 71-87): the connection, or None  *)
(* when the store refuses it (the error is printed, not raised).           *)
(***************************************************************************)
ConnectToProdev(ok) == IF ok THEN "open" ELSE "None"
ConnectAcquire(res, ok) ==
  [res EXCEPT !.conn_acquired = IF ok THEN @ + 1 ELSE @]

(***************************************************************************)
(* paginate_users (2-lazy_paginate.py, lines 17-28), line by line, and     *)
(* lazy_pagination (lines 31-45), which calls it.                          *)
(***************************************************************************)
Min(a, b) == IF a <= b THEN a ELSE b

\* a variant whose pages hold one row more than the limit
SelectPageInclusive(t, limit, off) ==
  SubSeq(t, off + 1, Min(Len(t), off + limit + 1))

\* SELECT * FROM user_data LIMIT limit OFFSET off
SelectPage(t, limit, off) == SubSeq(t, off + 1, Min(Len(t), off + limit))

\* an exception leaves paginate_users and lazy_pagination, which handle none
LazyPaginationRaise(exc) ==
  /\ pu_pc' = "raised"
  /\ lp_pc' = "failed"
  /\ lp_err' = exc
  /\ consumer' = "failed"
  /\ consumer_err' = exc
  /\ UNCHANGED <<page_size, offset, lp_out, rows, queries>>

\* the steps of paginate_users that neither raise nor return
PaginateUsersStep(pc) ==
  /\ pu_pc' = pc
  /\ UNCHANGED <<lp_vars, queries, consumer, consumer_err>>

\* a variant of line 45 that advances the offset by one row
NextOffsetByOne(pc, off, size) == IF pc = "created" THEN 0 ELSE off + 1

\* line 39 on the first next(), line 45 on a next() after a yield
NextOffset(pc, off, size) == IF pc = "created" THEN 0 ELSE off + size

\* lines 39-41 and 45: next() on the generator; the offset is 0 at first,
\* advanced by page_size after a yield; then paginate_users is called
LazyPaginationNext ==
  /\ PagesOnly
  /\ mode = "pages"
  /\ consumer = "iterating"
  /\ lp_pc \in {"created", "suspended"}
  /\ offset' = NextOffset(lp_pc, offset, page_size)
  /\ queries' = Append(queries, [limit |-> page_size, offset |-> offset'])
  /\ lp_pc' = "running"
  /\ pu_pc' = "connect"
  /\ UNCHANGED <<table, resources, mode, page_size, lp_out, lp_err,
                 connection, pu_cursor, rows, consumer, consumer_err>>

\* line 22
PaginateUsersConnect ==
  /\ PagesOnly
  /\ pu_pc = "connect"
  /\ \E ok \in BOOLEAN :
       /\ connection' = ConnectToProdev(ok)
       /\ resources' = ConnectAcquire(resources, ok)
  /\ PaginateUsersStep("cursor")
  /\ UNCHANGED <<table, mode, pu_cursor, rows>>

\* line 23: None has no cursor(); the store can fail to give one
PaginateUsersCursor ==
  /\ PagesOnly
  /\ pu_pc = "cursor"
  /\ \/ /\ connection = "None"
        /\ LazyPaginationRaise("AttributeError")
        /\ UNCHANGED <<resources, pu_cursor>>
     \/ /\ connection = "open"
        /\ \E ok \in BOOLEAN :
             IF ok
             THEN /\ pu_cursor' = "open"
                  /\ resources' =
                       [resources EXCEPT !.cursor_acquired = @ + 1]
                  /\ PaginateUsersStep("execute")
                  /\ UNCHANGED rows
             ELSE /\ LazyPaginationRaise("Error")
                  /\ UNCHANGED <<resources, pu_cursor>>
  /\ UNCHANGED <<table, mode, connection>>

\* line 24: the store rejects a negative LIMIT, and can fail any query
PaginateUsersExecute ==
  /\ PagesOnly
  /\ pu_pc = "execute"
  /\ \E ok \in BOOLEAN :
       IF ok /\ page_size >= 0
       THEN PaginateUsersStep("fetchall") /\ UNCHANGED rows
       ELSE LazyPaginationRaise("Error")
  /\ UNCHANGED <<table, resources, mode, connection, pu_cursor>>

\* line 25
PaginateUsersFetchall ==
  /\ PagesOnly
  /\ pu_pc = "fetchall"
  /\ \E ok \in BOOLEAN :
       IF ok
       THEN /\ rows' = SelectPage(table, page_size, offset)
            /\ PaginateUsersStep("close")
       ELSE LazyPaginationRaise("Error")
  /\ UNCHANGED <<table, resources, mode, connection, pu_cursor>>

\* line 26
PaginateUsersClose ==
  /\ PagesOnly
  /\ pu_pc = "close"
  /\ pu_cursor' = "closed"
  /\ resources' = [resources EXCEPT !.cursor_released = @ + 1]
  /\ PaginateUsersStep("return")
  /\ UNCHANGED <<table, mode, connection, rows>>

\* a variant of paginate_users without line 27
CloseConnectionSkipped(res) == res

\* line 27: connection.close()
CloseConnection(res) == [res EXCEPT !.conn_released = @ + 1]

\* a variant of lazy_pagination without lines 42-43: every page is yielded
LazyPaginationPageNoBreak(page) ==
  /\ lp_pc' = "suspended"
  /\ lp_out' = Append(lp_out, page)
  /\ UNCHANGED consumer

\* lines 41-44: the page returned is yielded, or the loop is left when the
\* page is empty
LazyPaginationPage(page) ==
  IF page = <<>>
  THEN /\ lp_pc' = "exhausted"
       /\ consumer' = "done"
       /\ UNCHANGED lp_out
  ELSE /\ lp_pc' = "suspended"
       /\ lp_out' = Append(lp_out, page)
       /\ UNCHANGED consumer

\* lines 27-28: the connection is closed and rows returned to line 41
PaginateUsersReturn ==
  /\ PagesOnly
  /\ pu_pc = "return"
  /\ connection' = "closed"
  /\ resources' = CloseConnection(resources)
  /\ pu_pc' = "idle"
  /\ LazyPaginationPage(rows)
  /\ UNCHANGED <<table, mode, page_size, offset, lp_err, pu_cursor, rows,
                 queries, consumer_err>>

\* the loop over the pages is left early
PagesStop ==
  /\ PagesOnly
  /\ mode = "pages"
  /\ consumer = "iterating"
  /\ lp_pc \in {"created", "suspended"}
  /\ consumer' = "stopped"
  /\ UNCHANGED <<table, resources, mode, lp_vars, pu_vars, consumer_err>>

\* the runtime finalizes the generator: GeneratorExit at line 44
LazyPaginationClose ==
  /\ PagesOnly
  /\ mode = "pages"
  /\ consumer = "stopped"
  /\ lp_pc \in {"created", "suspended"}
  /\ lp_pc' = "cancelled"
  /\ UNCHANGED <<table, resources, mode, page_size, offset, lp_out, lp_err,
                 pu_vars, consumer, consumer_err>>

InitPage ==
  /\ table \in Tables
  /\ resources = NoResources
  /\ mode = "pages"
  /\ consumer = "iterating"
  /\ consumer_err = "none"
  /\ UsersIdle
  /\ AgesIdle
  /\ page_size \in -1..MaxSize
  /\ lp_pc = "created"
  /\ offset = 0
  /\ lp_out = <<>>
  /\ lp_err = "none"
  /\ pu_pc = "idle"
  /\ connection = "None"
  /\ pu_cursor = "None"
  /\ rows = <<>>
  /\ queries = <<>>

NextPage ==
  \/ LazyPaginationNext
  \/ PaginateUsersConnect
  \/ PaginateUsersCursor
  \/ PaginateUsersExecute
  \/ PaginateUsersFetchall
  \/ PaginateUsersClose
  \/ PaginateUsersReturn
  \/ PagesStop
  \/ LazyPaginationClose

SpecPage == InitPage /\ [][NextPage]_vars

(***************************************************************************)
(* stream_user_ages (4-stream_ages.py, lines 16-28).  One resumption runs  *)
(* from next() to the next yield, to the end of the function, or to the    *)
(* exception that leaves it; no statement of the function handles one.     *)
(***************************************************************************)
\* an exception leaves the generator: lines 27-28 are not reached
StreamUserAgesRaise(res, cn, cu, pos, exc) ==
  /\ resources' = res
  /\ sa_connection' = cn
  /\ sa_cursor' = cu
  /\ sa_pos' = pos
  /\ sa_pc' = "failed"
  /\ sa_err' = exc
  /\ UNCHANGED sa_out

\* lines 24-28: the cursor is asked for its next row
StreamUserAgesFetch(res, cn, cu, fail) ==
  IF fail = "fetch"
  THEN StreamUserAgesRaise(res, cn, cu, sa_pos, "Error")
  ELSE IF sa_pos < Len(table)
  THEN LET age == PyInt(table[sa_pos + 1].age) IN
         IF age.ok
         THEN /\ sa_out' = Append(sa_out, age.val.n)
              /\ sa_pos' = sa_pos + 1
              /\ sa_pc' = "suspended"
              /\ resources' = res
              /\ sa_connection' = cn
              /\ sa_cursor' = cu
              /\ UNCHANGED sa_err
         ELSE StreamUserAgesRaise(res, cn, cu, sa_pos + 1, age.exc)
  ELSE /\ resources' = [res EXCEPT !.cursor_released = @ + 1,
                                   !.conn_released = @ + 1]
       /\ sa_cursor' = "closed"
       /\ sa_connection' = "closed"
       /\ sa_pc' = "exhausted"
       /\ UNCHANGED <<sa_pos, sa_out, sa_err>>

\* next() on the generator; fail is the step at which the store fails
StreamUserAgesNext(fail) ==
  \/ /\ sa_pc = "created"
     /\ LET cn == ConnectToProdev(fail # "connect")
            r1 == ConnectAcquire(resources, fail # "connect")
            r2 == [r1 EXCEPT !.cursor_acquired = @ + 1]
        IN CASE fail = "connect" ->
                  StreamUserAgesRaise(r1, cn, "None", sa_pos, "AttributeError")
             [] fail = "cursor" ->
                  StreamUserAgesRaise(r1, cn, "None", sa_pos, "Error")
             [] fail = "execute" ->
                  StreamUserAgesRaise(r2, cn, "open", sa_pos, "Error")
             [] OTHER -> StreamUserAgesFetch(r2, cn, "open", fail)
  \/ /\ sa_pc = "suspended"
     /\ fail \in {"fetch", "none"}
     /\ StreamUserAgesFetch(resources, sa_connection, sa_cursor, fail)

\* the generator is finalized: GeneratorExit is raised at the yield of
\* line 25 and leaves the function
StreamUserAgesClose ==
  /\ sa_pc \in {"created", "suspended"}
  /\ sa_pc' = "cancelled"
  /\ UNCHANGED <<resources, sa_connection, sa_cursor, sa_pos, sa_out, sa_err>>

(***************************************************************************)
(* compute_average_age (4-stream_ages.py, lines 31-47).                    *)
(***************************************************************************)
\* a variant that cuts the quotient after two decimals instead of rounding
Format2fTruncated(num, den) ==
  LET q == (100 * num) \div den
  IN [text |-> "Average age of users: ", whole |-> q \div 100,
      cents |-> q % 100]

\* f"{num / den:.2f}" for num >= 0: the quotient in hundredths, rounded to
\* the nearest, a tie to the even one (no tie arises for den < 8)
Format2f(num, den) ==
  LET q == (100 * num) \div den
      r == (100 * num) % den
      h == IF 2 * r > den \/ (2 * r = den /\ q % 2 = 1) THEN q + 1 ELSE q
  IN [text |-> "Average age of users: ", whole |-> h \div 100,
      cents |-> h % 100]

\* lines 43-47
Report(total, n) ==
  IF n = 0
  THEN [text |-> "No user data found.", whole |-> 0, cents |-> 0]
  ELSE Format2f(total, n)

\* one turn of the loop of lines 39-41, or its end and lines 43-47
ComputeAverageAgeNext ==
  /\ AgesOnly
  /\ mode = "average"
  /\ consumer = "iterating"
  /\ \E fail \in Failures : StreamUserAgesNext(fail)
  /\ IF sa_pc' = "suspended"
     THEN /\ total_age' = total_age + Last(sa_out')
          /\ count' = count + 1
          /\ UNCHANGED <<report, consumer, consumer_err>>
     ELSE IF sa_pc' = "exhausted"
     THEN /\ report' = Report(total_age, count)
          /\ consumer' = "done"
          /\ UNCHANGED <<total_age, count, consumer_err>>
     ELSE /\ consumer' = "failed"
          /\ consumer_err' = sa_err'
          /\ UNCHANGED <<total_age, count, report>>
  /\ UNCHANGED <<table, mode>>

\* for age in stream_user_ages(): a loop that only takes the ages
AgesNext ==
  /\ AgesOnly
  /\ mode = "ages"
  /\ consumer = "iterating"
  /\ \E fail \in Failures : StreamUserAgesNext(fail)
  /\ ConsumerAfter(sa_pc', sa_err')
  /\ UNCHANGED <<table, mode, ca_vars>>

\* that loop is left early
AgesStop ==
  /\ AgesOnly
  /\ mode = "ages"
  /\ consumer = "iterating"
  /\ sa_pc \in {"created", "suspended"}
  /\ consumer' = "stopped"
  /\ UNCHANGED <<table, resources, mode, sa_vars, ca_vars, consumer_err>>

\* the runtime finalizes the generator the loop left behind
FinalizeAges ==
  /\ AgesOnly
  /\ mode = "ages"
  /\ consumer = "stopped"
  /\ StreamUserAgesClose
  /\ UNCHANGED <<table, mode, ca_vars, consumer, consumer_err>>

InitAges ==
  /\ table \in Tables
  /\ resources = NoResources
  /\ mode \in {"ages", "average"}
  /\ consumer = "iterating"
  /\ consumer_err = "none"
  /\ UsersIdle
  /\ PagesIdle
  /\ sa_pc = "created"
  /\ sa_connection = "None"
  /\ sa_cursor = "None"
  /\ sa_pos = 0
  /\ sa_out = <<>>
  /\ sa_err = "none"
  /\ total_age = 0
  /\ count = 0
  /\ report = NoReport

NextAges ==
  \/ ComputeAverageAgeNext
  \/ AgesNext
  \/ AgesStop
  \/ FinalizeAges

SpecAges == InitAges /\ [][NextAges]_vars

(***************************************************************************)
(* Properties.                                                             *)
(***************************************************************************)
RECURSIVE Flatten(_)
Flatten(qq) == IF qq = <<>> THEN <<>> ELSE Head(qq) \o Flatten(Tail(qq))
RECURSIVE Sum(_)
Sum(q) == IF q = <<>> THEN 0 ELSE Head(q) + Sum(Tail(q))

Balanced(res) ==
  /\ res.conn_released = res.conn_acquired
  /\ res.cursor_released = res.cursor_acquired

\* the ages of the table, in order
AgesOf(t) == [i \in 1..Len(t) |-> t[i].age]

\* The raw ages that int() accepts, with the integer each denotes, written
\* out value by value: 20, 25, 26, Decimal("30"), 30.0 and "30".  The
\* others ("30.5", "abc", None) make int() raise.
IntegerOf(a) ==
  CASE a = IntV(20) -> 20
    [] a = IntV(25) -> 25
    [] a = IntV(26) -> 26
    [] a = DecimalV(300) -> 30
    [] a = FloatV(300) -> 30
    [] a = StrV(<<"3", "0">>) -> 30
    [] OTHER -> -1
Coercible(a) == IntegerOf(a) # -1

\* C1: for a positive batch_size, once stream_users_in_batches is exhausted
\* the batches it yielded, concatenated in yield order, are the records
\* stream_users produced, in order, and every batch but the last has
\* exactly batch_size records.
C1_BatchesPartitionRows ==
  (batch_size > 0 /\ b_pc = "exhausted") =>
    /\ Flatten(b_out) = su_out
    /\ Len(su_out) = Len(table)
    /\ \A i \in 1..(Len(b_out) - 1) : Len(b_out[i]) = batch_size

\* three rows in batches of two: a full batch, then a short last one
C1_Witness ==
  /\ b_pc = "exhausted"
  /\ batch_size = 2
  /\ Len(su_out) = 3
  /\ Len(b_out) = 2
  /\ Len(b_out[2]) = 1

\* C2: whenever stream_users is Exhausted, Cancelled or Failed, every
\* connection and cursor it acquired has been closed; and at no time has
\* more been released than was acquired.
C2_StreamUsersReleases ==
  /\ resources.conn_released <= resources.conn_acquired
  /\ resources.cursor_released <= resources.cursor_acquired
  /\ su_pc \in {"exhausted", "cancelled", "failed"} =>
       /\ Balanced(resources)
       /\ conn # "open"
       /\ cursor # "open"

\* the consumer stopped after one row of a longer table and the generator
\* was closed
C2_Witness ==
  /\ mode = "users"
  /\ su_pc = "cancelled"
  /\ Len(su_out) = 1
  /\ Len(table) > 1
  /\ resources.conn_acquired = 1
  /\ resources.conn_released = 1
  /\ resources.cursor_released = 1

\* C3 (as claimed): once stream_user_ages is cancelled after a partial
\* iteration (at least one age yielded, rows left), the connection and
\* the cursor it acquired have been released.
C3_AgesReleasedOnCancel ==
  (sa_pc = "cancelled" /\ Len(sa_out) >= 1 /\ sa_pos < Len(table)) =>
    Balanced(resources)

\* C4: for batch_size <= 0 stream_users_in_batches yields no batch, creates
\* no stream_users generator, acquires no connection, and its first
\* resumption ends it with ValueError.
C4_NonPositiveBatchSize ==
  (mode \in {"batches", "process"} /\ batch_size <= 0) =>
    /\ b_out = <<>>
    /\ su_pc = "none"
    /\ su_out = <<>>
    /\ su_pos = 0
    /\ resources = NoResources
    /\ b_pc \in {"created", "cancelled", "failed"}
    /\ b_pc = "failed" => b_err = "ValueError"
    /\ consumer \in {"done", "failed"} =>
         consumer = "failed" /\ consumer_err = "ValueError"

C4_Witness ==
  /\ batch_size = 0
  /\ Len(table) > 0
  /\ b_pc = "failed"
  /\ b_err = "ValueError"
  /\ consumer_err = "ValueError"

\* C7: when every age of the table is an integer (as int, Decimal, float
\* or digits), batch_processing, run to its end, has printed exactly the
\* records whose age is greater than 25, in the order of the table,
\* whatever the batch_size; ages 20, 26, 25 print the one record of age 26.
C7_PrintsOver25 ==
  (mode = "process" /\ consumer = "done"
     /\ \A i \in 1..Len(table) : Coercible(table[i].age)) =>
    /\ \E ids \in SUBSET (1..Len(table)) :
         /\ \A i \in 1..Len(table) :
              i \in ids <=> IntegerOf(table[i].age) > 25
         /\ Len(printed) = Cardinality(ids)
         /\ \A k \in 1..Len(printed) :
              /\ printed[k].user_id \in ids
              /\ printed[k] =
                   Row(printed[k].user_id,
                       IntV(IntegerOf(table[printed[k].user_id].age)))
              /\ \A j \in 1..(k - 1) : printed[j].user_id < printed[k].user_id
    /\ AgesOf(table) = <<IntV(20), IntV(26), IntV(25)>> =>
         printed = <<Row(2, IntV(26))>>

C7_Witness ==
  /\ mode = "process"
  /\ consumer = "done"
  /\ batch_size = 2
  /\ AgesOf(table) = <<IntV(20), IntV(26), IntV(25)>>
  /\ printed = <<Row(2, IntV(26))>>

\* C8: the i-th record stream_users yields is the i-th row of the table
\* with user_id, name and email as they were and with age the integer the
\* raw age denotes when int() accepts it ("30" and 30.0 become 30), the
\* raw age otherwise; one record per row fetched, none skipped, and the
\* only exception that ends the stream is the store's.
C8_AgeCoercion ==
  /\ Len(su_out) = su_pos
  /\ \A i \in 1..Len(su_out) :
       /\ su_out[i].user_id = table[i].user_id
       /\ su_out[i].name = table[i].name
       /\ su_out[i].email = table[i].email
       /\ su_out[i].age = IF Coercible(table[i].age)
                          THEN IntV(IntegerOf(table[i].age))
                          ELSE table[i].age
  /\ su_pc = "exhausted" => Len(su_out) = Len(table)
  /\ su_pc = "failed" => su_err = "Error"

\* a stream that went past a row int() rejects, between "30" and 30.0
C8_Witness ==
  /\ su_pc = "exhausted"
  /\ AgesOf(table) = <<StrV(<<"3", "0">>), StrV(<<"a", "b", "c">>), FloatV(300)>>
  /\ su_out[1].age = IntV(30)
  /\ su_out[2].age = StrV(<<"a", "b", "c">>)
  /\ su_out[3].age = IntV(30)

\* C5: lazy_pagination never yields an empty page; when paginate_users
\* returns an empty page the generator ends there without an exception
\* and yields nothing; and once it has ended no further call of
\* paginate_users is made.
C5_EndsOnFirstEmptyPage ==
  /\ [](\A i \in 1..Len(lp_out) : lp_out[i] # <<>>)
  /\ [][(pu_pc = "return" /\ rows = <<>>) =>
          /\ lp_pc' = "exhausted"
          /\ lp_err' = "none"
          /\ consumer' = "done"
          /\ lp_out' = lp_out]_vars
  /\ [][lp_pc = "exhausted" =>
          /\ lp_pc' = "exhausted"
          /\ pu_pc' = "idle"
          /\ queries' = queries]_vars

\* two pages were yielded, the third call returned no row and ended it
C5_Witness ==
  /\ lp_pc = "exhausted"
  /\ Len(lp_out) = 2
  /\ Len(queries) = 3
  /\ rows = <<>>
  /\ lp_err = "none"

\* C6: when compute_average_age has run to its end, it has added up every
\* age stream_user_ages yielded, once each; it printed "No user data
\* found." exactly when there was none, and otherwise the mean with two
\* decimals, that is the number of hundredths nearest to total / count;
\* ages 20, 30, 25 print 25.00.
C6_AverageReport ==
  (mode = "average" /\ consumer = "done") =>
    /\ Len(sa_out) = Len(table)
    /\ count = Len(sa_out)
    /\ total_age = Sum(sa_out)
    /\ report.text = "No user data found." <=> Len(sa_out) = 0
    /\ Len(sa_out) > 0 =>
         LET h == 100 * report.whole + report.cents
             d == h * Len(sa_out) - 100 * Sum(sa_out)
         IN /\ report.text = "Average age of users: "
            /\ report.cents \in 0..99
            /\ 2 * d <= Len(sa_out)
            /\ -2 * d <= Len(sa_out)
    /\ sa_out = <<20, 30, 25>> => report.whole = 25 /\ report.cents = 0

C6_Witness ==
  /\ mode = "average"
  /\ consumer = "done"
  /\ sa_out = <<20, 30, 25>>
  /\ report = [text |-> "Average age of users: ", whole |-> 25, cents |-> 0]

\* C9: at every point where lazy_pagination is suspended at its yield, or
\* has ended after calls that all returned, each call of paginate_users
\* has acquired one connection and one cursor and closed both; and at any
\* time at most one connection is open and no more connections have been
\* acquired than calls were made.
C9_OneConnectionPerPage ==
  /\ resources.conn_acquired - resources.conn_released \in {0, 1}
  /\ resources.conn_acquired <= Len(queries)
  /\ lp_pc \in {"suspended", "exhausted", "cancelled"} =>
       /\ resources.conn_acquired = Len(queries)
       /\ resources.cursor_acquired = Len(queries)
       /\ Balanced(resources)
       /\ connection # "open"
       /\ pu_cursor # "open"
  /\ (pu_pc \in {"execute", "fetchall", "close", "return"}) =>
       /\ connection = "open"
       /\ resources.conn_acquired = Len(queries)
       /\ resources.conn_released = Len(queries) - 1

\* suspended at the yield of the second page
C9_Witness ==
  /\ lp_pc = "suspended"
  /\ Len(lp_out) = 2
  /\ Len(queries) = 2
  /\ resources.conn_acquired = 2
  /\ resources.conn_released = 2

\* C10 (as claimed): when the store fails the execute or the fetch of
\* paginate_users, the connection and the cursor acquired for the call
\* have been released by the time lazy_pagination has failed.
C10_ReleasedBeforeError ==
  (lp_pc = "failed" /\ lp_err = "Error" /\ pu_cursor # "None") =>
    Balanced(resources)


\* C11 (as claimed): every record stream_users yields has an int age,
\* whatever the raw age was.
C11_AgeAlwaysInt ==
  \A i \in 1..Len(su_out) : su_out[i].age.t = "int"

\* C11 (amended): a record stream_users yields has an int age exactly when
\* int() accepts the raw age (int, Decimal, float, digits); a raw age that
\* int() rejects ("30.5", "abc", None) is yielded as it was, not an int.
C11_AgeIntWhenCoercible ==
  \A i \in 1..Len(su_out) :
    /\ su_out[i].age.t = "int" <=> Coercible(table[i].age)
    /\ ~Coercible(table[i].age) =>
         su_out[i].age.t = table[i].age.t /\ su_out[i].age.t # "int"

\* a Decimal, a non-numeric string and a null, all three yielded
C11_Witness ==
  /\ AgesOf(table) = <<DecimalV(300), StrV(<<"a", "b", "c">>), NoneV>>
  /\ Len(su_out) = 3
  /\ su_out[1].age = IntV(30)
  /\ su_out[2].age.t = "str"
  /\ su_out[3].age.t = "None"


\* C12 (as claimed): for a positive batch_size, batch_processing is never
\* ended by the exception of a conversion of one malformed age (a
\* non-numeric string or a null).
C12_NeverRaisesOnMalformedAge ==
  (mode = "process" /\ batch_size > 0) =>
    consumer_err \notin {"ValueError", "TypeError"}


\* C13 (as claimed): for batch_size <= 0 the call of
\* stream_users_in_batches itself raises ValueError, before any element is
\* requested: no generator is left waiting for its first next(), and a
\* program that made the call is over only by having failed with
\* ValueError.
C13_RaisedByTheCall ==
  (mode \in {"batches", "process"} /\ batch_size <= 0
     /\ consumer # "iterating") =>
    /\ consumer = "failed"
    /\ consumer_err = "ValueError"
    /\ b_pc = "failed"


\* C14: stream_users_in_batches never reads ahead.  Where it is suspended
\* at a yield, the rows pulled from stream_users so far are exactly the
\* records of the batches yielded so far, the current one included; while
\* it runs, they are those records followed by the buffer: each pulled row
\* is in the buffer or in a yielded batch once.
C14_NoReadAhead ==
  /\ b_pc \in {"yielded", "yielded_last"} =>
       /\ su_pos = Len(Flatten(b_out))
       /\ Flatten(b_out) = su_out
       /\ batch = Last(b_out)
  /\ b_pc = "running" => Flatten(b_out) \o batch = su_out
  /\ b_pc \in {"running", "yielded", "yielded_last"} => su_pos = Len(su_out)

\* suspended at the first full batch with a row still in the store
C14_Witness ==
  /\ b_pc = "yielded"
  /\ batch_size = 2
  /\ Len(b_out) = 1
  /\ su_pos = 2
  /\ Len(table) = 3


\* C15 (as claimed): once stream_users_in_batches is cancelled after it
\* yielded a batch, with rows left in the store, its own exit has closed
\* the stream_users generator: that one is cancelled too and the
\* connection and the cursor are released.
C15_BatcherCancelReleases ==
  (b_pc = "cancelled" /\ b_out # <<>> /\ su_pos < Len(table)) =>
    /\ su_pc = "cancelled"
    /\ Balanced(resources)


\* C16: the k-th call of paginate_users (k = 0, 1, ...) has limit page_size
\* and offset k * page_size; the offset is 0 until the first call, never
\* decreases, and changes only when the generator, suspended at the yield
\* of a non-empty page, is asked for the next page, and then by exactly
\* page_size.
C16_OffsetAdvance ==
  /\ [](\A k \in 1..Len(queries) :
          queries[k] = [limit |-> page_size, offset |-> (k - 1) * page_size])
  /\ [](Len(queries) <= 1 => offset = 0)
  /\ [][offset' >= offset]_vars
  /\ [][offset' # offset =>
          /\ lp_pc = "suspended"
          /\ consumer = "iterating"
          /\ Last(lp_out) # <<>>
          /\ offset' = offset + page_size
          /\ Len(queries') = Len(queries) + 1]_vars

\* three calls with page_size 2: offsets 0, 2 and 4
C16_Witness ==
  /\ page_size = 2
  /\ Len(queries) = 3
  /\ queries[3].offset = 4
  /\ offset = 4


\* C17 (as claimed): when the store refuses the connection of a
\* paginate_users call, the error that ends lazy_pagination and reaches
\* the consumer is the store's connection error.
C17_ConnectionErrorPropagates ==
  (lp_pc = "failed" /\ connection = "None") =>
    /\ lp_err = "Error"
    /\ consumer_err = "Error"


\* C18: every batch stream_users_in_batches yields has at least one and at
\* most batch_size records; once it is exhausted over a table of N rows it
\* has yielded N div batch_size full batches, followed by one batch of the
\* N mod batch_size rows left over when that is not zero, and by nothing
\* (no empty batch) when N is zero or a multiple of batch_size.
C18_BatchShapes ==
  /\ \A i \in 1..Len(b_out) :
       Len(b_out[i]) >= 1 /\ Len(b_out[i]) <= batch_size
  /\ b_pc = "exhausted" =>
       LET full == Len(table) \div batch_size
           rest == Len(table) % batch_size
       IN /\ Len(b_out) = IF rest > 0 THEN full + 1 ELSE full
          /\ \A i \in 1..full : Len(b_out[i]) = batch_size
          /\ rest > 0 => Len(b_out[full + 1]) = rest

\* three rows in one batch of three: nothing follows the full batch
C18_Witness ==
  /\ b_pc = "exhausted"
  /\ batch_size = 3
  /\ Len(table) = 3
  /\ b_out = <<su_out>>


\* the leftover of C18: three rows in batches of two end with a batch of one
C18_PartialCase ==
  /\ b_pc = "exhausted"
  /\ batch_size = 2
  /\ Len(table) = 3
  /\ Len(b_out) = 2
  /\ Len(b_out[2]) = 1


\* C19: when stream_users fails with a store error after r rows were
\* pulled, stream_users_in_batches fails with that error; the batches it
\* yielded are r div batch_size full batches, the first
\* batch_size * (r div batch_size) rows in order; the r mod batch_size rows
\* in the buffer are in no batch, and no batch is yielded afterwards.
C19_FailureDropsBuffer ==
  /\ []((b_pc = "failed" /\ b_err = "Error") =>
          LET r == Len(su_out)
              full == r \div batch_size
          IN /\ su_pc = "failed"
             /\ su_pos = r
             /\ Len(b_out) = full
             /\ \A i \in 1..Len(b_out) : Len(b_out[i]) = batch_size
             /\ Flatten(b_out) = SubSeq(su_out, 1, batch_size * full)
             /\ batch = SubSeq(su_out, batch_size * full + 1, r)
             /\ Len(batch) = r % batch_size
             /\ consumer = "failed"
             /\ consumer_err = "Error"
             /\ \A k \in 1..Len(printed) :
                  printed[k].user_id <= batch_size * full)
  /\ [][b_pc = "failed" => b_pc' = "failed" /\ b_out' = b_out
                              /\ printed' = printed]_vars

\* the store fails after three rows in batches of two: one row is lost
C19_Witness ==
  /\ b_pc = "failed"
  /\ b_err = "Error"
  /\ batch_size = 2
  /\ Len(su_out) = 3
  /\ Len(b_out) = 1
  /\ Len(batch) = 1


\* C20: over a table of N rows and for a positive page_size P, once
\* lazy_pagination is exhausted it has made ceil(N / P) + 1 calls of
\* paginate_users (one for N = 0, one extra empty fetch when P divides N)
\* and yielded ceil(N / P) pages, which concatenated are the rows of the
\* table in order, every page but the last holding exactly P rows.
C20_PagesPartitionTable ==
  (lp_pc = "exhausted" /\ page_size > 0) =>
    LET pages == (Len(table) + page_size - 1) \div page_size
    IN /\ Len(queries) = pages + 1
       /\ Len(lp_out) = pages
       /\ Flatten(lp_out) = table
       /\ \A i \in 1..(pages - 1) : Len(lp_out[i]) = page_size
       /\ \A i \in 1..Len(table) :
            Cardinality({<<p, j>> \in (1..Len(lp_out)) \X (1..page_size) :
                           j <= Len(lp_out[p]) /\ lp_out[p][j] = table[i]}) = 1
       /\ consumer = "done"
       /\ lp_err = "none"

\* three rows in one page of three, then the empty fetch that ends it
C20_Witness ==
  /\ lp_pc = "exhausted"
  /\ page_size = 3
  /\ Len(table) = 3
  /\ Len(queries) = 2
  /\ lp_out = <<table>>

====
